---- MODULE Spec2Model ----
(***************************************************************************)
(* A model of welshtools' transcription pipeline                           *)
(* (src/welshtools/transcription.py, src/welshtools/shared.py).            *)
(*                                                                         *)
(* Four specifications share this module:                                  *)
(*   MapSpec    - the pure symbol mapper map_festival_to_ipa, called       *)
(*                directly and from transcribe_string's post-processing.   *)
(*   WorkerSpec - concurrent calls of transcribe_string, step by step:     *)
(*                TempFile acquisition, engine subprocess, poll loop,      *)
(*                kill, TempFile release.                                  *)
(*   Spec       - main in file mode calling transcribe_file: chunks,       *)
(*                multiprocessing.Pool.map and the items of a chunk run by *)
(*                the pool's processes, progress reports, the exit code.   *)
(*   EscapeSpec - festival_escape applied to bounded strings.              *)
(*                                                                         *)
(* Text is modelled as a sequence of tokens.  In engine text and file      *)
(* lines a token is a whitespace token (" " or "\n") or a maximal run of   *)
(* non-whitespace characters; an IPA string is a sequence of code points,  *)
(* each written as an ASCII name ("schwa", "long", "sup_w", ...).          *)
(***************************************************************************)
EXTENDS Integers, Sequences, FiniteSets, TLC

(***************************************************************************)
(* Bounds of the model.                                                    *)
(***************************************************************************)
\* longest token string handed to map_festival_to_ipa, and most lines of
\* a segmentation file
MaxStringLen == 3

\* largest timeout a call is given, in time units of 0.05 s
MaxTimeout == 4

\* most records of a source file
MaxLines == 3

\* largest pool size (-p)
MaxProcs == 2

(***************************************************************************)
(* State.                                                                  *)
(***************************************************************************)
\* of the mapper (MapSpec)
VARIABLES
    m_pc,       \* "ready", then "direct" or "pipeline": which entry was taken
    m_string,   \* the string argument of map_festival_to_ipa
    m_flags,    \* the option flags of a direct call
    m_output,   \* the lines read from the engine's file (pipeline entry)
    m_result    \* what the call returned or raised

mvars == <<m_pc, m_string, m_flags, m_output, m_result>>

\* of the calls of transcribe_string (WorkerSpec)
VARIABLES
    w_pc,       \* where each call stands
    w_timeout,  \* its timeout argument, in time units
    w_tf,       \* its TempFile object: filepath, opened, destroyed
    w_command,  \* the script written to the engine's standard input
    w_i,        \* the poll loop's index
    w_polls,    \* proc.poll() calls made so far
    w_slept,    \* time slept in the poll loop so far, in time units
    w_exc,      \* the exception leaving the with block, then the call
    w_output,   \* the lines read from the temp file
    w_result,   \* the transcription returned
    disk,       \* the temporary directory: path -> file content (lines)
    eproc,      \* each call's engine subprocess
    estatus     \* its exit status, -1 until it has exited of its own accord

wvars == <<w_pc, w_timeout, w_tf, w_command, w_i, w_polls, w_slept, w_exc,
           w_output, w_result, disk, eproc, estatus>>

\* of transcribe_file (Spec)
VARIABLES
    o_pc,         \* where transcribe_file stands
    src_lines,    \* the lines of SOURCE_FILE
    src_ok,       \* whether SOURCE_FILE can be opened for reading
    dst_ok,       \* whether DEST_FILE can be opened for writing
    nprocs,       \* the pool size
    fin_lines,    \* the lines read into memory
    chunk_at,     \* i of shared.chunks: where the next chunk starts
    count_lines,  \* lines handed to the pool so far
    tasks,        \* the tasks of the chunk being mapped, by position
    map_left,     \* MapResult._number_left
    map_success,  \* MapResult._success
    map_value,    \* MapResult._value: the result list, or the first exception
    fout,         \* the lines written to DEST_FILE
    fout_closed,  \* whether fout.close() has run
    o_exc,        \* the exception transcribe_file raised
    out_of_order, \* whether a task has reported before an earlier one of its chunk
    verbose,      \* the verbose argument (main: not --quiet)
    main_pc,      \* where main stands: "call", then "returned" or "raised"
    exit_code     \* the exit code main returned, -1 until it has

pvars == <<o_pc, src_lines, src_ok, dst_ok, nprocs, fin_lines, chunk_at,
           count_lines, tasks, map_left, map_success, map_value, fout,
           fout_closed, o_exc, out_of_order, verbose, main_pc, exit_code>>

vars == <<mvars, wvars, pvars>>

(***************************************************************************)
(* Python helpers.                                                         *)
(***************************************************************************)
Range(s) == {s[i] : i \in 1..Len(s)}

IsSpace(t) == t \in {" ", "\n", "\r"}

\* str.split() with no argument: the whitespace-free runs, in order
Split(s) == SelectSeq(s, LAMBDA t : ~IsSpace(t))

RECURSIVE LStrip(_)
LStrip(s) == IF s # << >> /\ IsSpace(Head(s)) THEN LStrip(Tail(s)) ELSE s

RECURSIVE RStrip(_)
RStrip(s) ==
    IF s # << >> /\ IsSpace(s[Len(s)]) THEN RStrip(SubSeq(s, 1, Len(s) - 1)) ELSE s

\* str.strip()
Strip(s) == RStrip(LStrip(s))

\* dict.update(): the entries of overlay replace those of mapping
DictUpdate(mapping, overlay) == overlay @@ mapping

\* an exception object: its class, the names its message carries, the
\* timeout its message carries (-1: none), the class of its __context__
Exc(type, names, timeout, context) ==
    [type |-> type, names |-> names, timeout |-> timeout, context |-> context]

NoExc == Exc("none", {}, -1, "none")

Return(v) == [exc |-> NoExc, value |-> v]

Raise(e) == [exc |-> e, value |-> << >>]

(***************************************************************************)
(* map_festival_to_ipa: the segment-to-IPA table and its overlays.         *)
(***************************************************************************)
festival_to_ipa_mapping ==
    ("i" :> <<"i">>) @@ ("e" :> <<"e">>) @@ ("a" :> <<"a">>) @@
    ("o" :> <<"o">>) @@ ("u" :> <<"u">>) @@ ("y" :> <<"barred_i">>) @@
    ("@" :> <<"schwa">>) @@
    ("ii" :> <<"i", "long">>) @@ ("ee" :> <<"e", "long">>) @@
    ("aa" :> <<"a", "long">>) @@ ("oo" :> <<"o", "long", "long">>) @@
    ("uu" :> <<"u", "long">>) @@ ("yy" :> <<"barred_i", "long">>) @@
    ("@@" :> <<"schwa", "long">>) @@
    ("oa" :> <<"o", "a">>) @@ ("oi" :> <<"o", "i">>) @@ ("ou" :> <<"o", "u">>) @@
    ("oy" :> <<"o", "barred_i">>) @@ ("ai" :> <<"a", "i">>) @@
    ("au" :> <<"a", "u">>) @@ ("ay" :> <<"a", "barred_i">>) @@
    ("aay" :> <<"a", "long", "barred_i">>) @@ ("uy" :> <<"u", "barred_i">>) @@
    ("iu" :> <<"i", "u">>) @@ ("ei" :> <<"e", "i">>) @@ ("eu" :> <<"e", "u">>) @@
    ("ey" :> <<"e", "barred_i">>) @@ ("ye" :> <<"barred_i", "e">>) @@
    ("p" :> <<"p">>) @@ ("t" :> <<"t">>) @@ ("k" :> <<"k">>) @@
    ("b" :> <<"b">>) @@ ("d" :> <<"d">>) @@ ("g" :> <<"g">>) @@
    ("f" :> <<"f">>) @@ ("th" :> <<"theta">>) @@ ("h" :> <<"h">>) @@
    ("x" :> <<"chi">>) @@ ("v" :> <<"v">>) @@ ("dh" :> <<"eth">>) @@
    ("s" :> <<"s">>) @@ ("z" :> <<"z">>) @@ ("sh" :> <<"esh">>) @@
    ("zh" :> <<"ezh">>) @@ ("ch" :> <<"t", "tie", "esh">>) @@
    ("jh" :> <<"d", "tie", "ezh">>) @@ ("lh" :> <<"belted_l">>) @@
    ("rh" :> <<"r", "ring_below", "sup_h">>) @@
    ("l" :> <<"l">>) @@ ("r" :> <<"r">>) @@ ("w" :> <<"w">>) @@
    ("j" :> <<"j">>) @@ ("m" :> <<"m">>) @@ ("n" :> <<"n">>) @@
    ("ng" :> <<"eng">>) @@ ("mh" :> <<"m", "ring_below">>) @@
    ("nh" :> <<"n", "ring_below">>) @@ ("ngh" :> <<"eng", "ring_above">>) @@
    ("lw" :> <<"l", "sup_w">>) @@ ("nw" :> <<"n", "sup_w">>) @@
    ("rw" :> <<"r", "sup_w">>)

festival_to_ipa_fixes ==
    ("hh" :> <<"h">>) @@ ("yu" :> <<"barred_i", "u">>) @@
    ("sil" :> <<" ">>) @@ ("#" :> << >>)

festival_tense_lax_augmentation ==
    ("i" :> <<"small_cap_i">>) @@ ("e" :> <<"open_e">>) @@ ("a" :> <<"a">>) @@
    ("aa" :> <<"script_a", "long">>) @@ ("o" :> <<"open_o">>) @@
    ("u" :> <<"upsilon">>)

festival_labialisation_augmentation ==
    ("lw" :> <<"l", "w">>) @@ ("nw" :> <<"n", "w">>) @@ ("rw" :> <<"r", "w">>)

festival_long_schwa_augmentation == ("@@" :> <<"schwa">>)

\* the table the transcription loop reads, for one setting of the flags.
\* The long-schwa overlay is built (lines 388-391) but no update() applies it.
MappingFor(encode_tense_lax, encode_labialisation, encode_long_schwa) ==
    LET m0 == DictUpdate(festival_to_ipa_mapping, festival_to_ipa_fixes)
        m1 == IF encode_tense_lax
                THEN DictUpdate(m0, festival_tense_lax_augmentation) ELSE m0
        m2 == IF encode_labialisation = FALSE
                THEN DictUpdate(m1, festival_labialisation_augmentation) ELSE m1
    IN  m2

\* the except clause of the transcription loop: ex.args is a tuple, so the
\* assignment ex.args[0] = <message naming item> itself raises TypeError
\* (whose message names nothing) while the KeyError is being handled; the
\* bare raise after it is never reached.
UnknownSymbolHandler(item) == Exc("TypeError", {}, -1, "KeyError")

RECURSIVE TranscribeItems(_, _, _)
TranscribeItems(items, mapping, transcription) ==
    IF items = << >> THEN Return(Strip(transcription))
    ELSE IF Head(items) \in DOMAIN mapping
         THEN TranscribeItems(Tail(items), mapping,
                              transcription \o mapping[Head(items)])
         ELSE Raise(UnknownSymbolHandler(Head(items)))

map_festival_to_ipa(string, encode_tense_lax, encode_labialisation, encode_long_schwa) ==
    TranscribeItems(Split(string),
                    MappingFor(encode_tense_lax, encode_labialisation, encode_long_schwa),
                    << >>)

(***************************************************************************)
(* transcribe_string, after the with block: the segment labels are the     *)
(* last whitespace-delimited field of each line of the engine's file.      *)
(***************************************************************************)
\* line.split()[-1] of a line with no field raises IndexError
RECURSIVE LastFields(_, _)
LastFields(output, transcription) ==
    IF output = << >> THEN Return(transcription)
    ELSE LET fields == Split(Head(output))
         IN  IF fields = << >>
               THEN Raise(Exc("IndexError", {}, -1, "none"))
               ELSE LastFields(Tail(output),
                               transcription \o <<fields[Len(fields)], " ">>)

\* a transcribe_string that leaves encode_labialisation at its default
PipelineLabialisationDefault == TRUE

\* the flags transcribe_string passes: encode_labialisation=False, the
\* other two left at the defaults of map_festival_to_ipa's signature
PipelineLabialisation == FALSE

ProcessOutput(output) ==
    LET t == LastFields(output, << >>)
    IN  IF t.exc # NoExc THEN t
        ELSE map_festival_to_ipa(t.value, FALSE, PipelineLabialisation, TRUE)

(***************************************************************************)
(* MapSpec: the mapper applied to bounded inputs.                          *)
(***************************************************************************)

\* segment labels the inputs are drawn from: one per overlay, a plain one,
\* silence, the phrase edge marker, and one the table does not hold
SegLabels == {"@@", "lw", "nw", "rw", "i", "sil", "#", "zz"}

RECURSIVE SeqsUpTo(_, _)
SeqsUpTo(S, n) ==
    IF n = 0 THEN {<< >>}
    ELSE LET shorter == SeqsUpTo(S, n - 1)
         IN  shorter \cup {Append(s, x) : s \in shorter, x \in S}

\* a token string is well formed when no two labels are adjacent (two
\* adjacent runs of non-whitespace would be one run)
WellFormed(s) == \A i \in 1..(Len(s) - 1) : IsSpace(s[i]) \/ IsSpace(s[i + 1])

EngineStrings == {s \in SeqsUpTo(SegLabels \cup {" "}, MaxStringLen) : WellFormed(s)}

\* one line of a segmentation file: end time, a marker, the label
SegLine(label) == <<"0.2300", " ", "100", " ", label, "\n">>

SegFiles == SeqsUpTo({SegLine(l) : l \in SegLabels} \cup {<<"\n">>}, MaxStringLen)

DefaultFlags == [tense_lax |-> FALSE, labialisation |-> TRUE, long_schwa |-> TRUE]

AllFlags == [tense_lax : BOOLEAN, labialisation : BOOLEAN, long_schwa : BOOLEAN]

MapInitVars ==
    /\ m_pc = "ready"
    /\ m_result = Return(<< >>)
    /\ \/ /\ m_string \in EngineStrings
          /\ m_flags \in AllFlags
          /\ m_output = << >>
       \/ /\ m_string = << >>
          /\ m_flags = DefaultFlags
          /\ m_output \in SegFiles

MapIdle ==
    /\ m_pc = "idle"
    /\ m_result = Return(<< >>)
    /\ m_string = << >>
    /\ m_flags = DefaultFlags
    /\ m_output = << >>

\* a caller's direct call of map_festival_to_ipa with its own flags
MapDirect ==
    /\ m_pc = "ready"
    /\ m_output = << >>
    /\ m_result' = map_festival_to_ipa(m_string, m_flags.tense_lax,
                                       m_flags.labialisation, m_flags.long_schwa)
    /\ m_pc' = "direct"
    /\ UNCHANGED <<m_string, m_flags, m_output>>
    /\ UNCHANGED <<wvars, pvars>>

\* the tail of transcribe_string, from the lines read to the return
MapPipeline ==
    /\ m_pc = "ready"
    /\ m_string = << >>
    /\ m_flags = DefaultFlags
    /\ m_result' = ProcessOutput(m_output)
    /\ m_string' = LET t == LastFields(m_output, << >>)
                   IN  IF t.exc = NoExc THEN t.value ELSE << >>
    /\ m_pc' = "pipeline"
    /\ UNCHANGED <<m_flags, m_output>>
    /\ UNCHANGED <<wvars, pvars>>

(***************************************************************************)
(* map_utf8_to_festival and festival_escape, on sequences of code points.  *)
(* A precomposed letter is named <base>_<accent>; a combining mark is      *)
(* named by its code point.                                                *)
(***************************************************************************)
\* unicodedata.normalize('NFKD', .) of one code point
NFKD(c) ==
    CASE c = "a_circumflex" -> <<"a", "U+0302">>
      [] c = "w_circumflex" -> <<"w", "U+0302">>
      [] c = "i_diaeresis"  -> <<"i", "U+0308">>
      [] c = "e_acute"      -> <<"e", "U+0301">>
      [] c = "a_grave"      -> <<"a", "U+0300">>
      [] c = "n_tilde"      -> <<"n", "U+0303">>
      [] OTHER              -> <<c>>

NonAscii ==
    {"a_circumflex", "w_circumflex", "i_diaeresis", "e_acute", "a_grave", "n_tilde",
     "U+0300", "U+0301", "U+0302", "U+0303", "U+0308", "sharp_s"}

utf8_to_festival_mapping ==
    ("U+0302" :> "+") @@ ("U+0308" :> ":") @@ ("U+0301" :> "/") @@ ("U+0300" :> "\\")

RECURSIVE MapChars(_, _)
MapChars(string, f) ==
    IF string = << >> THEN << >> ELSE f[Head(string)] \o MapChars(Tail(string), f)

\* str.replace(old, new) for a one-character old
StrReplace(string, old, new) ==
    MapChars(string, [c \in Range(string) |-> IF c = old THEN new ELSE <<c>>])

map_utf8_to_festival(string) ==
    LET decomposed == MapChars(string, [c \in Range(string) |-> NFKD(c)])
        mapped == MapChars(decomposed,
                           [c \in Range(decomposed) |->
                              IF c \in DOMAIN utf8_to_festival_mapping
                                THEN <<utf8_to_festival_mapping[c]>> ELSE <<c>>])
    IN  SelectSeq(mapped, LAMBDA c : c \notin NonAscii)

\* the two replacements in the other order: quotes first, then backslashes
festival_escape_quotes_first(string) ==
    StrReplace(StrReplace(string, "\"", <<"\\", "\"">>), "\\", <<"\\", "\\">>)

festival_escape(string) ==
    StrReplace(StrReplace(string, "\\", <<"\\", "\\">>), "\"", <<"\\", "\"">>)

(***************************************************************************)
(* EscapeSpec: festival_escape applied to bounded strings over an alphabet *)
(* that holds the backslash and the double quote.                          *)
(***************************************************************************)
EscapeAlphabet == {"\\", "\"", "a", "n"}

EscapeStrings == SeqsUpTo(EscapeAlphabet, MaxStringLen)

EscapeInitVars ==
    /\ m_pc = "escape"
    /\ m_string \in EscapeStrings
    /\ m_flags = DefaultFlags
    /\ m_output = << >>
    /\ m_result = Return(<< >>)

\* string = festival_escape(string)
Escape ==
    /\ m_pc = "escape"
    /\ m_result' = Return(festival_escape(m_string))
    /\ m_pc' = "escaped"
    /\ UNCHANGED <<m_string, m_flags, m_output>>
    /\ UNCHANGED <<wvars, pvars>>

(***************************************************************************)
(* WorkerSpec: two concurrent calls of transcribe_string sharing the       *)
(* system temporary directory.                                             *)
(***************************************************************************)

\* the concurrent calls of transcribe_string: two, which is what sharing a
\* temp file takes
Workers == {1, 2}

\* time.sleep(0.1), in time units of 0.05 s
PollInterval == 2

\* the random strings random_string() may draw (of 36^5)
RandomStrings == {"K3QZ7", "0ABCD"}

\* the word each call is given
WordOf(w) ==
    IF w % 2 = 1 THEN <<"c", "a", "f", "f", "i">>
                 ELSE <<"t", "a_circumflex", "\"", "a_grave", "n_tilde">>

\* what the engine may leave in the file it saves: a segmentation of known
\* labels, one holding a label the table lacks, one with a blank line, an
\* empty file
EngineFiles ==
    { <<SegLine("#"), SegLine("k"), SegLine("a"), SegLine("f"), SegLine("i")>>,
      <<SegLine("zz")>>,
      <<SegLine("lw"), <<"\n">>>>,
      << >> }

\* self.tempdir + os.path.sep + self.prefix + self.randomstring + self.suffix
FilePath(prefix, randomstring, suffix) == <<"/tmp", "/", prefix, randomstring, suffix>>

NoTempFile == [filepath |-> << >>, opened |-> FALSE, destroyed |-> FALSE]

\* the script of transcribe_string with TEXT and PATH filled in
Command(text, path) ==
    <<"(voice_cb_cy_llg_diphone)", "\n",
      "(utt.save.segs (utt.synth (Utterance Text ", "\"">> \o text \o
    <<"\"", ")) ", "\"">> \o path \o <<"\"", ")", "\n", "(exit)", "\n", "\n">>

\* a poll loop with one turn too many
TimeoutLoopsOneMore(timeout) == timeout \div PollInterval + 1

\* int(timeout/0.1)
TimeoutLoops(timeout) == timeout \div PollInterval

\* os.unlink / the file a path names no longer exists
Unlink(d, path) == [q \in DOMAIN d \ {path} |-> d[q]]

WorkerInitVars ==
    /\ w_pc = [w \in Workers |-> "idle"]
    /\ w_timeout = [w \in Workers |-> 0]
    /\ w_tf = [w \in Workers |-> NoTempFile]
    /\ w_command = [w \in Workers |-> << >>]
    /\ w_i = [w \in Workers |-> 0]
    /\ w_polls = [w \in Workers |-> 0]
    /\ w_slept = [w \in Workers |-> 0]
    /\ w_exc = [w \in Workers |-> NoExc]
    /\ w_output = [w \in Workers |-> << >>]
    /\ w_result = [w \in Workers |-> << >>]
    /\ disk = << >>
    /\ eproc = [w \in Workers |-> "none"]
    /\ estatus = [w \in Workers |-> -1]

\* transcribe_string(string, timeout) is called: the word is normalised and
\* TempFile('festival-', '.segs') begins
Call(w) ==
    /\ w_pc[w] = "idle"
    /\ \E t \in 0..MaxTimeout : w_timeout' = [w_timeout EXCEPT ![w] = t]
    /\ w_pc' = [w_pc EXCEPT ![w] = "tf_sample"]
    /\ UNCHANGED <<w_tf, w_command, w_i, w_polls, w_slept, w_exc, w_output,
                   w_result, disk, eproc, estatus>>
    /\ UNCHANGED <<mvars, pvars>>

\* TempFile.__init__, one turn of the while loop up to the isfile test: a
\* random string is drawn; a path that names a file is drawn again
TempFileSample(w) ==
    /\ w_pc[w] = "tf_sample"
    /\ \E r \in RandomStrings :
          LET path == FilePath("festival-", r, ".segs")
          IN  /\ w_tf' = [w_tf EXCEPT ![w].filepath = path]
              /\ w_pc' = [w_pc EXCEPT ![w] =
                            IF path \in DOMAIN disk THEN "tf_sample" ELSE "tf_open"]
    /\ UNCHANGED <<w_timeout, w_command, w_i, w_polls, w_slept, w_exc, w_output,
                   w_result, disk, eproc, estatus>>
    /\ UNCHANGED <<mvars, pvars>>

\* open(self.filepath, "w+"); fh.close(): the file is created, or truncated
\* if it exists by now; the loop is left
TempFileOpen(w) ==
    /\ w_pc[w] = "tf_open"
    /\ disk' = (w_tf[w].filepath :> << >>) @@ disk
    /\ w_tf' = [w_tf EXCEPT ![w].opened = TRUE]
    /\ w_pc' = [w_pc EXCEPT ![w] = "launch"]
    /\ UNCHANGED <<w_timeout, w_command, w_i, w_polls, w_slept, w_exc, w_output,
                   w_result, eproc, estatus>>
    /\ UNCHANGED <<mvars, pvars>>

\* open() raises IOError: continue, another name is drawn
TempFileOpenFails(w) ==
    /\ w_pc[w] = "tf_open"
    /\ w_pc' = [w_pc EXCEPT ![w] = "tf_sample"]
    /\ UNCHANGED <<w_timeout, w_tf, w_command, w_i, w_polls, w_slept, w_exc,
                   w_output, w_result, disk, eproc, estatus>>
    /\ UNCHANGED <<mvars, pvars>>

\* subprocess.Popen(['festival', '--pipe'], stdin=PIPE), the script written
\* and flushed; the poll loop is entered with its bound computed
Launch(w) ==
    /\ w_pc[w] = "launch"
    /\ eproc' = [eproc EXCEPT ![w] = "running"]
    /\ w_command' = [w_command EXCEPT ![w] =
                        Command(festival_escape(map_utf8_to_festival(WordOf(w))),
                                festival_escape(w_tf[w].filepath))]
    /\ w_i' = [w_i EXCEPT ![w] = 0]
    /\ w_pc' = [w_pc EXCEPT ![w] = "poll"]
    /\ UNCHANGED <<w_timeout, w_tf, w_polls, w_slept, w_exc, w_output, w_result,
                   disk, estatus>>
    /\ UNCHANGED <<mvars, pvars>>

\* Popen raises OSError (the engine cannot be started): the with block is
\* left with the exception
LaunchFails(w) ==
    /\ w_pc[w] = "launch"
    /\ w_command' = [w_command EXCEPT ![w] =
                        Command(festival_escape(map_utf8_to_festival(WordOf(w))),
                                festival_escape(w_tf[w].filepath))]
    /\ w_exc' = [w_exc EXCEPT ![w] = Exc("OSError", {<<"festival">>}, -1, "none")]
    /\ w_pc' = [w_pc EXCEPT ![w] = "exit"]
    /\ UNCHANGED <<w_timeout, w_tf, w_i, w_polls, w_slept, w_output, w_result,
                   disk, eproc, estatus>>
    /\ UNCHANGED <<mvars, pvars>>

\* the engine runs the script to its (exit): it saves a segmentation to
\* the path it was given (creating the file if it is gone) and exits 0
EngineSaves(w) ==
    /\ eproc[w] = "running"
    /\ \E f \in EngineFiles : disk' = (w_tf[w].filepath :> f) @@ disk
    /\ eproc' = [eproc EXCEPT ![w] = "exited"]
    /\ estatus' = [estatus EXCEPT ![w] = 0]
    /\ UNCHANGED <<w_pc, w_timeout, w_tf, w_command, w_i, w_polls, w_slept, w_exc,
                   w_output, w_result>>
    /\ UNCHANGED <<mvars, pvars>>

\* the engine exits without saving anything (the voice is not installed,
\* the script fails, the engine crashes)
EngineAborts(w) ==
    /\ eproc[w] = "running"
    /\ eproc' = [eproc EXCEPT ![w] = "exited"]
    /\ estatus' = [estatus EXCEPT ![w] = 1]
    /\ UNCHANGED <<w_pc, w_timeout, w_tf, w_command, w_i, w_polls, w_slept, w_exc,
                   w_output, w_result, disk>>
    /\ UNCHANGED <<mvars, pvars>>

\* the message of the exception raised at the deadline
TimeoutException(timeout, command) == Exc("Exception", {command}, timeout, "none")

\* one turn of the poll loop, for i in range(timeout_loops+1):
\*   proc.poll() finds the engine terminated (and reaps it): break;
\*   still running and i < timeout_loops: sleep 0.1 s, next turn;
\*   still running at i = timeout_loops: proc.kill(), raise.
Poll(w) ==
    /\ w_pc[w] = "poll"
    /\ w_polls' = [w_polls EXCEPT ![w] = @ + 1]
    /\ IF eproc[w] = "exited"
         THEN /\ eproc' = [eproc EXCEPT ![w] = "reaped"]
              /\ w_pc' = [w_pc EXCEPT ![w] = "read"]
              /\ UNCHANGED <<w_i, w_slept, w_exc>>
         ELSE IF w_i[w] < TimeoutLoops(w_timeout[w])
                THEN /\ w_slept' = [w_slept EXCEPT ![w] = @ + PollInterval]
                     /\ w_i' = [w_i EXCEPT ![w] = @ + 1]
                     /\ UNCHANGED <<w_pc, w_exc, eproc>>
                ELSE /\ eproc' = [eproc EXCEPT ![w] = "killed"]
                     /\ w_exc' = [w_exc EXCEPT ![w] =
                                    TimeoutException(w_timeout[w], w_command[w])]
                     /\ w_pc' = [w_pc EXCEPT ![w] = "exit"]
                     /\ UNCHANGED <<w_i, w_slept>>
    /\ UNCHANGED <<w_timeout, w_tf, w_command, w_output, w_result, disk, estatus>>
    /\ UNCHANGED <<mvars, pvars>>

\* with open(tempf.get_path(), "r") as fh: the lines are read, or open()
\* raises FileNotFoundError
ReadTempFile(w) ==
    /\ w_pc[w] = "read"
    /\ IF w_tf[w].filepath \in DOMAIN disk
         THEN /\ w_output' = [w_output EXCEPT ![w] = disk[w_tf[w].filepath]]
              /\ UNCHANGED w_exc
         ELSE /\ w_exc' = [w_exc EXCEPT ![w] =
                             Exc("FileNotFoundError", {w_tf[w].filepath}, -1, "none")]
              /\ UNCHANGED w_output
    /\ w_pc' = [w_pc EXCEPT ![w] = "exit"]
    /\ UNCHANGED <<w_timeout, w_tf, w_command, w_i, w_polls, w_slept, w_result,
                   disk, eproc, estatus>>
    /\ UNCHANGED <<mvars, pvars>>

\* a destroy() that marks the object destroyed and leaves the file
DestroyWithoutUnlink(tf, d) ==
    [tf |-> [tf EXCEPT !.destroyed = TRUE], disk |-> d, exc |-> NoExc]

\* TempFile.destroy() on the object tf with the directory d:
\* [tf, disk, exc] after the call; os.unlink raises FileNotFoundError when
\* the path names no file, and destroyed is then left False
Destroy(tf, d) ==
    IF ~tf.destroyed
      THEN IF tf.filepath \in DOMAIN d
             THEN [tf |-> [tf EXCEPT !.destroyed = TRUE],
                   disk |-> Unlink(d, tf.filepath),
                   exc |-> NoExc]
             ELSE [tf |-> tf, disk |-> d,
                   exc |-> Exc("FileNotFoundError", {tf.filepath}, -1, "none")]
      ELSE [tf |-> tf, disk |-> d, exc |-> NoExc]

\* the with block is left: TempFile.__exit__ calls destroy(); an exception
\* of destroy() replaces the one in flight; with none in flight the output
\* is processed (lines 231-237) and the transcription returned
ExitWith(w) ==
    /\ w_pc[w] = "exit"
    /\ LET d == Destroy(w_tf[w], disk)
           post == ProcessOutput(w_output[w])
           exc == IF d.exc # NoExc
                    THEN [d.exc EXCEPT !.context = w_exc[w].type]
                    ELSE IF w_exc[w] # NoExc THEN w_exc[w] ELSE post.exc
       IN  /\ w_tf' = [w_tf EXCEPT ![w] = d.tf]
           /\ disk' = d.disk
           /\ w_exc' = [w_exc EXCEPT ![w] = exc]
           /\ w_result' = [w_result EXCEPT ![w] =
                             IF exc = NoExc THEN post.value ELSE << >>]
           /\ w_pc' = [w_pc EXCEPT ![w] = IF exc = NoExc THEN "returned" ELSE "raised"]
    /\ UNCHANGED <<w_timeout, w_command, w_i, w_polls, w_slept, w_output,
                   eproc, estatus>>
    /\ UNCHANGED <<mvars, pvars>>

WorkerStep(w) ==
    \/ Call(w)
    \/ TempFileSample(w)
    \/ TempFileOpen(w)
    \/ TempFileOpenFails(w)
    \/ Launch(w)
    \/ LaunchFails(w)
    \/ EngineSaves(w)
    \/ EngineAborts(w)
    \/ Poll(w)
    \/ ReadTempFile(w)
    \/ ExitWith(w)

WorkerNext == \E w \in Workers : WorkerStep(w)

(***************************************************************************)
(* Spec: transcribe_file.  The source is read whole, cut into chunks of    *)
(* nprocs lines, each chunk mapped over the pool (Pool.map: one task per   *)
(* line, handed out in order to whichever pool process is free, results    *)
(* stored by index, ready once every task has reported) and written.       *)
(* A task is transcribe_line on one line; its call of transcribe_string is *)
(* taken in three steps here: up to the engine's launch, the engine's      *)
(* exit, and the poll loop's end (WorkerSpec has the steps in between).    *)
(***************************************************************************)

\* the words and frequencies of the source's records, by line number
WordList == <<"caffi", "ty", "mab", "nos", "haf">>

FreqList == <<"12", "7", "300", "41", "5">>

\* what the engine and the mapper make of each word (the engine is an
\* oracle: a fixed segmentation per word)
Lexicon ==
    ("caffi" :> <<"k", "a", "f", "i">>) @@ ("ty" :> <<"t", "barred_i", "long">>) @@
    ("mab" :> <<"m", "a", "long", "b">>) @@ ("nos" :> <<"n", "o", "long", "long", "s">>) @@
    ("haf" :> <<"h", "a", "long", "v">>)

\* line i of a source: `word,frequency' and its line end, or the same with
\* a further comma-separated field
GoodLine(i) == <<WordList[i], ",", FreqList[i], "\n">>

ExtraFieldLine(i) == <<WordList[i], ",", FreqList[i], ",", "x", "\n">>

SourceFiles ==
    UNION { [1..n -> {"good", "extra"}] : n \in 0..MaxLines }

LinesOf(kinds) ==
    [i \in 1..Len(kinds) |-> IF kinds[i] = "good" THEN GoodLine(i) ELSE ExtraFieldLine(i)]

\* str.split(','): the runs between commas
RECURSIVE SplitComma(_, _)
SplitComma(s, field) ==
    IF s = << >> THEN <<field>>
    ELSE IF Head(s) = "," THEN <<field>> \o SplitComma(Tail(s), << >>)
         ELSE SplitComma(Tail(s), Append(field, Head(s)))

\* transcribe_line up to its call of transcribe_string:
\* (word, count) = line.strip().split(',') raises ValueError unless the
\* line has exactly two fields
ParseLine(line) ==
    LET fields == SplitComma(Strip(line), << >>)
    IN  IF Len(fields) = 2
          THEN [exc |-> NoExc, word |-> fields[1], count |-> fields[2]]
          ELSE [exc |-> Exc("ValueError", {}, -1, "none"), word |-> << >>, count |-> << >>]

\* "%s,%s,%s\r\n" % (transcription, count, word)
FormatLine(transcription, count, word) ==
    transcription \o <<",">> \o count \o <<",">> \o word \o <<"\r", "\n">>

\* transcribe_string's result for a word whose engine run ended well
Transcription(word) == Lexicon[word[1]]

\* the default timeout of transcribe_line, 30 s, in time units of 0.05 s
LineTimeout == 600

\* shared.chunks: lst[i:i+chunk_size]
Slice(lst, i, chunk_size) ==
    SubSeq(lst, i + 1, IF i + chunk_size < Len(lst) THEN i + chunk_size ELSE Len(lst))

NoTask == [line |-> << >>, st |-> "queued", by |-> 0, eng |-> "none",
           exc |-> NoExc, late |-> FALSE]

\* a result list filled in the order the tasks report
MapResultStoreAsCompleted(value, i, result) ==
    LET free == {j \in DOMAIN value : value[j] = << >>}
    IN  [value EXCEPT ![CHOOSE j \in free : \A h \in free : j <= h] = result]

\* MapResult._set(i, (True, result)) on the result list
MapResultStore(value, i, result) == [value EXCEPT ![i] = result]

\* a MapResult that is ready as soon as one task has failed
MapReadyFailFast(left, success) == left = 0 \/ ~success

\* a MapResult that is ready at once (a map that does not wait)
MapReadyAtOnce(left, success) == TRUE

\* MapResult is ready (its event set) once every task has reported
MapReady(left, success) == left = 0

PipelineIdle ==
    /\ o_pc = "off"
    /\ verbose = FALSE
    /\ main_pc = "off"
    /\ exit_code = -1
    /\ src_lines = << >>
    /\ src_ok = TRUE
    /\ dst_ok = TRUE
    /\ nprocs = 1
    /\ fin_lines = << >>
    /\ chunk_at = 0
    /\ count_lines = 0
    /\ tasks = << >>
    /\ map_left = 0
    /\ map_success = TRUE
    /\ map_value = << >>
    /\ fout = << >>
    /\ fout_closed = FALSE
    /\ o_exc = NoExc
    /\ out_of_order = FALSE

PipelineInitVars ==
    /\ o_pc = "open"
    /\ verbose \in BOOLEAN
    /\ main_pc = "call"
    /\ exit_code = -1
    /\ \E kinds \in SourceFiles : src_lines = LinesOf(kinds)
    /\ src_ok \in BOOLEAN
    /\ dst_ok \in BOOLEAN
    /\ nprocs \in 1..MaxProcs
    /\ fin_lines = << >>
    /\ chunk_at = 0
    /\ count_lines = 0
    /\ tasks = << >>
    /\ map_left = 0
    /\ map_success = TRUE
    /\ map_value = << >>
    /\ fout = << >>
    /\ fout_closed = FALSE
    /\ o_exc = NoExc
    /\ out_of_order = FALSE

\* the paths main hands to transcribe_file: args[0], args[1]
infile == <<"words.csv">>

outfile == <<"ipa.csv">>

\* codecs.open(infile, "r"), codecs.open(outfile, "w+"): either failure is
\* re-raised as an IOError naming the path; opening truncates DEST_FILE
OpenFiles ==
    /\ o_pc = "open"
    /\ IF ~src_ok
         THEN /\ o_exc' = Exc("IOError", {infile}, -1, "IOError")
              /\ o_pc' = "raised"
         ELSE IF ~dst_ok
                THEN /\ o_exc' = Exc("IOError", {outfile}, -1, "IOError")
                     /\ o_pc' = "raised"
                ELSE /\ o_pc' = "read"
                     /\ UNCHANGED o_exc
    /\ UNCHANGED <<src_lines, src_ok, dst_ok, nprocs, fin_lines, chunk_at,
                   count_lines, tasks, map_left, map_success, map_value, fout,
                   fout_closed, out_of_order>>
    /\ UNCHANGED <<verbose, main_pc, exit_code>>
    /\ UNCHANGED <<mvars, wvars>>

\* shared.progress(count, total): both quotients divide by float(total)
progress(count, total) ==
    IF total = 0 THEN Exc("ZeroDivisionError", {}, -1, "none") ELSE NoExc

\* shared.estimate_remaining_time(count, total, start): the time per unit
\* divides by float(count)
estimate_remaining_time(count, total) ==
    IF count = 0 THEN Exc("ZeroDivisionError", {}, -1, "none") ELSE NoExc

\* what the progress report after a chunk raises: the estimate, then the bar
ChunkReport(count, total) ==
    IF estimate_remaining_time(count, total) # NoExc
      THEN estimate_remaining_time(count, total)
      ELSE progress(count, total)

\* the source is read whole into fin_lines and closed; if verbose the
\* first progress bar is printed; count_lines = 0; the pool of nprocs
\* processes is created
ReadSource ==
    /\ o_pc = "read"
    /\ fin_lines' = src_lines
    /\ LET exc == IF verbose THEN progress(0, Len(src_lines)) ELSE NoExc
       IN  IF exc # NoExc
             THEN /\ o_exc' = exc
                  /\ o_pc' = "raised"
                  /\ UNCHANGED <<count_lines, chunk_at>>
             ELSE /\ count_lines' = 0
                  /\ chunk_at' = 0
                  /\ o_pc' = "loop"
                  /\ UNCHANGED o_exc
    /\ UNCHANGED <<src_lines, src_ok, dst_ok, nprocs, tasks, map_left,
                   map_success, map_value, fout, fout_closed, out_of_order>>
    /\ UNCHANGED <<verbose, main_pc, exit_code>>
    /\ UNCHANGED <<mvars, wvars>>

\* for chunk in shared.chunks(fin_lines, nprocs): the next chunk is
\* counted and handed to pool.map, one task per line
MapChunk ==
    /\ o_pc = "loop"
    /\ chunk_at < Len(fin_lines)
    /\ LET chunk == Slice(fin_lines, chunk_at, nprocs)
       IN  /\ count_lines' = count_lines + Len(chunk)
           /\ tasks' = [k \in 1..Len(chunk) |-> [NoTask EXCEPT !.line = chunk[k]]]
           /\ map_left' = Len(chunk)
           /\ map_value' = [k \in 1..Len(chunk) |-> << >>]
    /\ map_success' = TRUE
    /\ chunk_at' = chunk_at + nprocs
    /\ o_pc' = "map"
    /\ UNCHANGED <<src_lines, src_ok, dst_ok, nprocs, fin_lines, fout,
                   fout_closed, o_exc, out_of_order>>
    /\ UNCHANGED <<verbose, main_pc, exit_code>>
    /\ UNCHANGED <<mvars, wvars>>

\* a MapResult that takes a task's failure for an empty result
ReportSwallowingFailure(k, success, result) ==
    /\ map_left' = map_left - 1
    /\ map_success' = map_success
    /\ map_value' = IF success THEN MapResultStore(map_value, k, result) ELSE map_value
    /\ out_of_order' = (out_of_order \/
                          \E j \in 1..(k - 1) : tasks[j].st \in {"queued", "running"})

\* a task reports to the MapResult: MapResult._set(k, (success, result))
Report(k, success, result) ==
    /\ map_left' = map_left - 1
    /\ map_success' = (map_success /\ success)
    /\ map_value' = IF success /\ map_success
                      THEN MapResultStore(map_value, k, result)
                      ELSE IF ~success /\ map_success THEN result ELSE map_value
    /\ out_of_order' = (out_of_order \/
                          \E j \in 1..(k - 1) : tasks[j].st \in {"queued", "running"})

Busy(p) == \E k \in DOMAIN tasks : tasks[k].st = "running" /\ tasks[k].by = p

\* a free pool process takes the next task off the queue and runs
\* transcribe_line on it up to the launch of the engine; a line that does
\* not split into two fields fails the task at once
TaskStart(k, p) ==
    /\ o_pc = "map"
    /\ k \in DOMAIN tasks
    /\ tasks[k].st = "queued"
    /\ \A j \in 1..(k - 1) : tasks[j].st # "queued"
    /\ p <= nprocs
    /\ ~Busy(p)
    /\ LET parsed == ParseLine(tasks[k].line)
       IN  IF parsed.exc = NoExc
             THEN /\ tasks' = [tasks EXCEPT ![k].st = "running", ![k].by = p,
                                            ![k].eng = "running"]
                  /\ UNCHANGED <<map_left, map_success, map_value, out_of_order>>
             ELSE /\ tasks' = [tasks EXCEPT ![k].st = "failed", ![k].by = p,
                                            ![k].exc = parsed.exc]
                  /\ Report(k, FALSE, parsed.exc)
    /\ UNCHANGED <<o_pc, src_lines, src_ok, dst_ok, nprocs, fin_lines, chunk_at,
                   count_lines, fout, fout_closed, o_exc>>
    /\ UNCHANGED <<verbose, main_pc, exit_code>>
    /\ UNCHANGED <<mvars, wvars>>

\* the engine of a task exits of its own accord
TaskEngineExits(k) ==
    /\ k \in DOMAIN tasks
    /\ tasks[k].eng = "running"
    /\ tasks' = [tasks EXCEPT ![k].eng = "exited"]
    /\ UNCHANGED <<o_pc, src_lines, src_ok, dst_ok, nprocs, fin_lines, chunk_at,
                   count_lines, map_left, map_success, map_value, fout,
                   fout_closed, o_exc, out_of_order>>
    /\ UNCHANGED <<verbose, main_pc, exit_code>>
    /\ UNCHANGED <<mvars, wvars>>

TimedOut(t) == t.st = "failed" /\ t.exc.type = "Exception"

\* a poll finds the engine terminated: the file is read and mapped and
\* transcribe_line returns its line, or the mapping raises
TaskReturns(k) ==
    /\ k \in DOMAIN tasks
    /\ tasks[k].st = "running"
    /\ tasks[k].eng = "exited"
    /\ LET parsed == ParseLine(tasks[k].line)
           late == \E j \in DOMAIN tasks : TimedOut(tasks[j])
       IN  \/ /\ tasks' = [tasks EXCEPT ![k].st = "done", ![k].eng = "reaped",
                                        ![k].late = late]
              /\ Report(k, TRUE, FormatLine(Transcription(parsed.word),
                                            parsed.count, parsed.word))
           \/ /\ tasks' = [tasks EXCEPT ![k].st = "failed", ![k].eng = "reaped",
                                        ![k].exc = UnknownSymbolHandler("zz")]
              /\ Report(k, FALSE, UnknownSymbolHandler("zz"))
    /\ UNCHANGED <<o_pc, src_lines, src_ok, dst_ok, nprocs, fin_lines, chunk_at,
                   count_lines, fout, fout_closed, o_exc>>
    /\ UNCHANGED <<verbose, main_pc, exit_code>>
    /\ UNCHANGED <<mvars, wvars>>

\* the last poll of a task finds its engine still running: the task's own
\* proc.kill(), and the exception is the task's result
TaskTimesOut(k) ==
    /\ k \in DOMAIN tasks
    /\ tasks[k].st = "running"
    /\ tasks[k].eng = "running"
    /\ LET parsed == ParseLine(tasks[k].line)
           exc == TimeoutException(LineTimeout, Command(parsed.word, << >>))
       IN  /\ tasks' = [tasks EXCEPT ![k].st = "failed", ![k].eng = "killed",
                                     ![k].exc = exc]
           /\ Report(k, FALSE, exc)
    /\ UNCHANGED <<o_pc, src_lines, src_ok, dst_ok, nprocs, fin_lines, chunk_at,
                   count_lines, fout, fout_closed, o_exc>>
    /\ UNCHANGED <<verbose, main_pc, exit_code>>
    /\ UNCHANGED <<mvars, wvars>>

\* pool.map returns once the MapResult is ready: the result list, whose
\* lines are written to fout in order (and if verbose the progress is
\* reported), or the first exception stored, which leaves transcribe_file
MapReturns ==
    /\ o_pc = "map"
    /\ MapReady(map_left, map_success)
    /\ IF map_success
         THEN /\ fout' = fout \o map_value
              /\ LET exc == IF verbose
                              THEN ChunkReport(count_lines, Len(fin_lines))
                              ELSE NoExc
                 IN  IF exc # NoExc
                       THEN o_exc' = exc /\ o_pc' = "raised"
                       ELSE o_pc' = "loop" /\ UNCHANGED o_exc
         ELSE /\ o_exc' = map_value
              /\ o_pc' = "raised"
              /\ UNCHANGED fout
    /\ UNCHANGED <<src_lines, src_ok, dst_ok, nprocs, fin_lines, chunk_at,
                   count_lines, tasks, map_left, map_success, map_value,
                   fout_closed, out_of_order>>
    /\ UNCHANGED <<verbose, main_pc, exit_code>>
    /\ UNCHANGED <<mvars, wvars>>

\* the loop over the chunks ends: fout.close()
CloseOutput ==
    /\ o_pc = "loop"
    /\ chunk_at >= Len(fin_lines)
    /\ fout_closed' = TRUE
    /\ o_pc' = "done"
    /\ UNCHANGED <<src_lines, src_ok, dst_ok, nprocs, fin_lines, chunk_at,
                   count_lines, tasks, map_left, map_success, map_value, fout,
                   o_exc, out_of_order>>
    /\ UNCHANGED <<verbose, main_pc, exit_code>>
    /\ UNCHANGED <<mvars, wvars>>

\* errno.EIO
EIO == 5

\* main, file mode: the code returned after transcribe_file, whose IOError
\* is caught
ExitCodeZero(exc) == 0

ExitCode(exc) == IF exc.type = "IOError" THEN EIO ELSE 0

\* main returns: transcribe_file has returned, or raised an IOError
MainReturns ==
    /\ main_pc = "call"
    /\ o_pc = "done" \/ (o_pc = "raised" /\ o_exc.type = "IOError")
    /\ exit_code' = ExitCode(o_exc)
    /\ main_pc' = "returned"
    /\ UNCHANGED <<o_pc, src_lines, src_ok, dst_ok, nprocs, fin_lines, chunk_at,
                   count_lines, tasks, map_left, map_success, map_value, fout,
                   fout_closed, o_exc, out_of_order, verbose>>
    /\ UNCHANGED <<mvars, wvars>>

\* any other exception of transcribe_file leaves main
MainRaises ==
    /\ main_pc = "call"
    /\ o_pc = "raised"
    /\ o_exc.type # "IOError"
    /\ main_pc' = "raised"
    /\ UNCHANGED <<o_pc, src_lines, src_ok, dst_ok, nprocs, fin_lines, chunk_at,
                   count_lines, tasks, map_left, map_success, map_value, fout,
                   fout_closed, o_exc, out_of_order, verbose, exit_code>>
    /\ UNCHANGED <<mvars, wvars>>

Next ==
    \/ OpenFiles
    \/ ReadSource
    \/ MapChunk
    \/ \E k \in 1..MaxProcs, p \in 1..MaxProcs : TaskStart(k, p)
    \/ \E k \in 1..MaxProcs : TaskEngineExits(k)
    \/ \E k \in 1..MaxProcs : TaskReturns(k)
    \/ \E k \in 1..MaxProcs : TaskTimesOut(k)
    \/ MapReturns
    \/ CloseOutput
    \/ MainReturns
    \/ MainRaises

Init == PipelineInitVars /\ WorkerInitVars /\ MapIdle

Spec == Init /\ [][Next]_vars

WorkerInit == WorkerInitVars /\ PipelineIdle /\ MapIdle

WorkerSpec == WorkerInit /\ [][WorkerNext]_vars

MapNext == MapDirect \/ MapPipeline

MapInit == MapInitVars /\ WorkerInitVars /\ PipelineIdle

MapSpec == MapInit /\ [][MapNext]_vars

EscapeNext == Escape

EscapeInit == EscapeInitVars /\ WorkerInitVars /\ PipelineIdle

EscapeSpec == EscapeInit /\ [][EscapeNext]_vars

(***************************************************************************)
(* Claims about transcribe_file (checked under Spec).                      *)
(***************************************************************************)
\* C1: for a source of n records and a pool size p with 1 <= p <= n, when
\* transcribe_file completes the destination holds exactly n lines and
\* line i carries the frequency and the word of source line i (and that
\* word's transcription), in whatever order the tasks of a chunk report.
C1_OrderPreserved ==
    (o_pc = "done" /\ 1 <= nprocs /\ nprocs <= Len(src_lines)) =>
        /\ Len(fout) = Len(src_lines)
        /\ \A i \in 1..Len(src_lines) :
              LET in == ParseLine(src_lines[i])
                  out == SplitComma(Strip(fout[i]), << >>)
              IN  /\ Len(out) = 3
                  /\ out[1] = Transcription(in.word)
                  /\ out[2] = in.count
                  /\ out[3] = in.word

\* C1 witness: a source of several chunks, the last one short, has been
\* transcribed to the end with some task reporting before an earlier one
C1_Witness ==
    /\ o_pc = "done"
    /\ Len(src_lines) >= 3
    /\ nprocs = 2
    /\ Len(fout) = Len(src_lines)
    /\ out_of_order

\* C6: when a task times out only its own engine is killed and only that
\* task fails (every other task of the chunk, and its engine, is left as
\* it was, and pool.map keeps waiting); and transcribe_file is past a
\* chunk only when every task of it has returned or failed.
C6_TimeoutIsLocal ==
    /\ [][\A k \in DOMAIN tasks :
            (k \in DOMAIN tasks' /\ ~TimedOut(tasks[k]) /\ TimedOut(tasks'[k])) =>
                /\ tasks'[k].eng = "killed"
                /\ \A j \in DOMAIN tasks \ {k} : tasks'[j] = tasks[j]
                /\ o_pc' = "map"]_vars
    /\ [](o_pc \in {"loop", "raised", "done"} =>
            \A k \in DOMAIN tasks : tasks[k].st \in {"done", "failed"})

\* C6 witness: pool.map has raised a task's timeout after a sibling that
\* was still running when the timeout struck has returned its line
C6_Witness ==
    /\ o_pc = "raised"
    /\ o_exc.type = "Exception"
    /\ \E k, j \in DOMAIN tasks :
          /\ TimedOut(tasks[k])
          /\ tasks[j].st = "done"
          /\ tasks[j].late

\* C12: if SOURCE_FILE or DEST_FILE cannot be opened, transcribe_file
\* raises an IOError that names the offending path, with no line read and
\* no word handed to the pool, and main (file mode) returns errno.EIO.
C12_OpenFailsFast ==
    (~src_ok \/ ~dst_ok) =>
        /\ o_pc \in {"open", "raised"}
        /\ fin_lines = << >> /\ tasks = << >> /\ count_lines = 0 /\ fout = << >>
        /\ o_pc = "raised" =>
              /\ o_exc.type = "IOError"
              /\ o_exc.names = {IF ~src_ok THEN infile ELSE outfile}
        /\ main_pc \in {"call", "returned"}
        /\ main_pc = "returned" => exit_code = EIO

\* C12 witness: SOURCE_FILE opens, DEST_FILE does not, and main has
\* returned the I/O-error code
C12_Witness ==
    /\ src_ok /\ ~dst_ok
    /\ o_pc = "raised"
    /\ o_exc.names = {outfile}
    /\ main_pc = "returned"
    /\ exit_code = EIO

\* C13: the lines are split into word and frequency while the source is
\* read, on the first comma: no task of the pool meets a parse error (a
\* line with further commas is a good line), and a run that fails with a
\* parse error has not entered Dispatching (nothing handed to the pool,
\* nothing written).
C13_ParsedWhileReading ==
    /\ \A k \in DOMAIN tasks : tasks[k].exc.type # "ValueError"
    /\ o_exc.type = "ValueError" =>
          (tasks = << >> /\ count_lines = 0 /\ fout = << >>)

\* the line transcribe_line returns for line i of the source
ExpectedLine(i) ==
    LET in == ParseLine(fin_lines[i])
    IN  FormatLine(Transcription(in.word), in.count, in.word)

\* where the chunk being mapped starts in fin_lines
ChunkStart == chunk_at - nprocs

\* C14: while a chunk is with the pool, the results of every earlier
\* chunk are already in the destination stream; between chunks the stream
\* holds the results of all the lines handed out so far; and a chunk is
\* handed to the pool only when every task of the chunk before it has
\* returned.
C14_ChunkBarrier ==
    /\ [](o_pc = "map" => fout = [i \in 1..ChunkStart |-> ExpectedLine(i)])
    /\ [](o_pc = "loop" => fout = [i \in 1..count_lines |-> ExpectedLine(i)])
    /\ [][(o_pc = "loop" /\ o_pc' = "map") =>
            \A k \in DOMAIN tasks : tasks[k].st = "done"]_vars

\* C14 witness: a later chunk is with the pool, one of its tasks running,
\* and the results of the chunks before it are in the stream
C14_Witness ==
    /\ o_pc = "map"
    /\ ChunkStart > 0
    /\ Len(fout) = ChunkStart
    /\ \E k \in DOMAIN tasks : tasks[k].st = "running"

\* C15: no pool process executes two items of the same chunk.
C15_DistinctWorkers ==
    \A k, j \in DOMAIN tasks :
        (k # j /\ tasks[k].by # 0 /\ tasks[j].by # 0) => tasks[k].by # tasks[j].by

WorkerFailure(t) == t.st = "failed" /\ t.exc.type \in {"Exception", "TypeError"}

\* C16: once a task of chunk k has failed by timeout or unknown segment,
\* the run can only wait for the chunk and raise: the tasks stay those of
\* chunk k (no later chunk is handed out), the stream keeps holding
\* exactly the results of the chunks before k, in input order, the
\* exception leaves transcribe_file and main, and the failed task is never
\* run again.
C16_FailureHalts ==
    /\ [](\A k \in DOMAIN tasks : WorkerFailure(tasks[k]) =>
            /\ o_pc \in {"map", "raised"}
            /\ \A j \in DOMAIN tasks : tasks[j].line = fin_lines[ChunkStart + j]
            /\ fout = [i \in 1..ChunkStart |-> ExpectedLine(i)]
            /\ o_pc = "raised" =>
                  \E j \in DOMAIN tasks :
                      tasks[j].st = "failed" /\ o_exc = tasks[j].exc
            /\ main_pc \in {"call", "raised"}
            /\ exit_code = -1)
    /\ [][\A k \in DOMAIN tasks : WorkerFailure(tasks[k]) =>
            (k \in DOMAIN tasks' /\ tasks'[k] = tasks[k])]_vars

\* C16 witness: a task of a later chunk has timed out, the exception has
\* left transcribe_file and main, and the stream holds the earlier chunks
C16_Witness ==
    /\ main_pc = "raised"
    /\ ChunkStart > 0
    /\ Len(fout) = ChunkStart
    /\ \E k \in DOMAIN tasks : TimedOut(tasks[k]) /\ o_exc = tasks[k].exc

\* C18: for a source of no records transcribe_file gets to its end for
\* either setting of verbose: nothing is handed to the pool, nothing is
\* written, no exception is raised, and the destination is closed.
C18_EmptySourceDone ==
    (src_ok /\ dst_ok /\ src_lines = << >>) =>
        /\ o_pc \in {"open", "read", "loop", "done"}
        /\ o_exc = NoExc
        /\ tasks = << >> /\ fout = << >>
        /\ o_pc = "done" => fout_closed

(***************************************************************************)
(* Claims about transcribe_string and TempFile (checked under WorkerSpec). *)
(***************************************************************************)
Left(w) == w_pc[w] \in {"returned", "raised"}

\* C2: every call creates its temp file before the engine is launched,
\* and at the moment the call returns or raises - success, timeout, launch
\* failure or any other exception - its path names no file.
C2_TempFileScoped ==
    /\ [](\A w \in Workers : eproc[w] # "none" => w_tf[w].opened)
    /\ [][\A w \in Workers :
            (~Left(w) /\ Left(w)') => w_tf[w].filepath \notin DOMAIN disk']_vars

\* C2 witness: one call has returned a transcription and another has
\* raised its timeout, both having opened a temp file, with no file left
C2_Witness ==
    /\ \E w \in Workers : w_pc[w] = "returned" /\ w_tf[w].opened /\ w_result[w] # << >>
    /\ \E w \in Workers : w_pc[w] = "raised" /\ w_tf[w].opened
                             /\ w_exc[w].type = "Exception"
    /\ DOMAIN disk = {}

TimeoutFailed(w) ==
    w_pc[w] = "raised" /\ (w_exc[w].type = "Exception" \/ w_exc[w].context = "Exception")

\* C4: after a call has reported a timeout failure its engine subprocess
\* has terminated and been reaped: none is left unreaped.
C4_ReapedBeforeFailure ==
    \A w \in Workers : TimeoutFailed(w) => eproc[w] = "reaped"

Live(w) == w_tf[w].opened /\ w_pc[w] \in {"launch", "poll", "read", "exit"}

\* C5: no two simultaneously live TempFile instances have the same path.
C5_NoSharedTempFile ==
    \A w1, w2 \in Workers :
        (w1 # w2 /\ Live(w1) /\ Live(w2)) => w_tf[w1].filepath # w_tf[w2].filepath

\* C10: when destroy() is called on a TempFile (here by __exit__, as the
\* call leaves its with block), also when the file was removed by someone
\* else before, the call returns normally: after it the object is marked
\* destroyed and its path names no file.
C10_DestroyNeverFails ==
    [][\A w \in Workers :
          (~Left(w) /\ Left(w)' /\ w_tf[w].opened) =>
              /\ w_tf'[w].destroyed
              /\ w_tf[w].filepath \notin DOMAIN disk']_vars

\* C17: a call of transcribe_string returns a transcription only for an
\* engine that exited normally and left a segmentation in the temp file:
\* an engine that exits abnormally, or writes nothing, makes the call fail.
C17_NoResultWithoutSegmentation ==
    \A w \in Workers :
        w_pc[w] = "returned" => (estatus[w] = 0 /\ w_output[w] # << >>)

(***************************************************************************)
(* Claims about the symbol mapper (checked under MapSpec).                 *)
(***************************************************************************)
MapCalled == m_pc \in {"direct", "pipeline"}

\* the flags the call in hand ran with
FlagsUsed ==
    IF m_pc = "pipeline"
      THEN [DefaultFlags EXCEPT !.labialisation = PipelineLabialisation]
      ELSE m_flags

KnownLabels ==
    DOMAIN MappingFor(FlagsUsed.tense_lax, FlagsUsed.labialisation, FlagsUsed.long_schwa)

UnknownItems == {i \in 1..Len(Split(m_string)) : Split(m_string)[i] \notin KnownLabels}

FirstUnknown == Split(m_string)[CHOOSE i \in UnknownItems : \A j \in UnknownItems : i <= j]

\* C7: if a label of the stream is absent from the (option-augmented)
\* table, the call fails with the unknown-segment error (KeyError) whose
\* message names the offending label, and returns no partial IPA string.
C7_UnknownSegmentNamed ==
    (MapCalled /\ UnknownItems # {}) =>
        /\ m_result.exc.type = "KeyError"
        /\ FirstUnknown \in m_result.exc.names
        /\ m_result.value = << >>

\* C8: a flag set away from its default replaces the entries of its
\* overlay: a one-label stream whose label is in the overlay of such a
\* flag maps to the overlay's value, and with encode_long_schwa=False the
\* output for a stream containing '@@' differs from the default output.
C8_OverlaysApplied ==
    (m_pc = "direct" /\ m_result.exc = NoExc) =>
        /\ \A l \in SegLabels :
              m_string = <<l>> =>
                /\ (m_flags.tense_lax /\ l \in DOMAIN festival_tense_lax_augmentation)
                      => m_result.value = Strip(festival_tense_lax_augmentation[l])
                /\ (~m_flags.labialisation /\ l \in DOMAIN festival_labialisation_augmentation)
                      => m_result.value = Strip(festival_labialisation_augmentation[l])
                /\ (~m_flags.long_schwa /\ l \in DOMAIN festival_long_schwa_augmentation)
                      => m_result.value = Strip(festival_long_schwa_augmentation[l])
        /\ (~m_flags.long_schwa /\ "@@" \in Range(Split(m_string)))
              => m_result.value #
                   map_festival_to_ipa(m_string, m_flags.tense_lax,
                                       m_flags.labialisation, TRUE).value

\* C9 as claimed: with no flag supplied by the caller, the pipeline's
\* output is the reference convention, the one map_festival_to_ipa's
\* default flags give (labialised labels as single phonemic symbols).
C9_PipelineReference ==
    (m_pc = "pipeline" /\ m_result.exc = NoExc) =>
        m_result.value = map_festival_to_ipa(m_string, FALSE, TRUE, TRUE).value

\* what the pipeline renders each label of SegLabels as: no tense/lax
\* distinction, long schwa retained, labialised consonants as letter + w
PipelineRendering ==
    ("i" :> <<"i">>) @@ ("@@" :> <<"schwa", "long">>) @@
    ("lw" :> <<"l", "w">>) @@ ("nw" :> <<"n", "w">>) @@ ("rw" :> <<"r", "w">>) @@
    ("sil" :> <<" ">>) @@ ("#" :> << >>)

RECURSIVE Render(_, _)
Render(labels, table) ==
    IF labels = << >> THEN << >> ELSE table[Head(labels)] \o Render(Tail(labels), table)

\* C9 (amended): with no flag supplied by the caller, the pipeline
\* (transcribe_string calling map_festival_to_ipa with
\* encode_labialisation=False) renders with no tense/lax distinction and
\* long schwa retained, but lw, nw, rw as the sequences l+w, n+w, r+w: its
\* output never holds the labialisation diacritic.
C9_PipelineConvention ==
    (m_pc = "pipeline" /\ m_result.exc = NoExc) =>
        /\ m_result.value = Strip(Render(Split(m_string), PipelineRendering))
        /\ "sup_w" \notin Range(m_result.value)

\* C9 witness: a word whose segmentation holds a labialised consonant, a
\* long schwa and a short vowel has gone through the pipeline
C9_Witness ==
    /\ m_pc = "pipeline"
    /\ m_result.exc = NoExc
    /\ {"lw", "@@", "i"} \subseteq Range(Split(m_string))

(***************************************************************************)
(* Claims about festival_escape (checked under EscapeSpec).                *)
(***************************************************************************)
\* a string in which every backslash starts an escape of a backslash or of
\* a double quote, and no double quote stands unescaped
RECURSIVE WellEscaped(_)
WellEscaped(s) ==
    IF s = << >> THEN TRUE
    ELSE IF Head(s) = "\\"
           THEN /\ Len(s) >= 2
                /\ s[2] \in {"\\", "\""}
                /\ WellEscaped(SubSeq(s, 3, Len(s)))
           ELSE Head(s) # "\"" /\ WellEscaped(Tail(s))

\* the escaping reversed: each backslash is dropped and the character
\* after it is kept
RECURSIVE Unescape(_)
Unescape(s) ==
    IF s = << >> THEN << >>
    ELSE IF Head(s) = "\\"
           THEN IF Len(s) >= 2 THEN <<s[2]>> \o Unescape(SubSeq(s, 3, Len(s)))
                ELSE <<"dangling">>
           ELSE <<Head(s)>> \o Unescape(Tail(s))

\* C11: festival_escape doubles the backslashes first and escapes the
\* double quotes after, so for every string over an alphabet with both,
\* the output is well escaped (each backslash of the original is doubled,
\* no backslash or quote is left unescaped) and reversing the escaping
\* gives the original string back.
C11_EscapeRoundTrip ==
    m_pc = "escaped" =>
        /\ WellEscaped(m_result.value)
        /\ Unescape(m_result.value) = m_string

\* a string holding both a backslash and a double quote has been escaped
C11_Witness ==
    /\ m_pc = "escaped"
    /\ "\\" \in Range(m_string)
    /\ "\"" \in Range(m_string)
    /\ m_result.value # m_string

====
